---------------------------- MODULE Spec2Model ----------------------------
(***************************************************************************)
(* LedFx frontend: the route table (frontend/src/routes/views.jsx), the    *)
(* TransitionCard component and the REST client functions.                 *)
(*                                                                         *)
(* Three independent parts share no state in the code, so each has its own *)
(* specification over the same variables:                                  *)
(*   SpecRoutes  local storage and the evaluation of the route module      *)
(*   SpecApi     the six API client functions and the settling of requests *)
(*   SpecCard    the TransitionCard component, its renders and handlers    *)
(***************************************************************************)
EXTENDS Integers, Sequences, FiniteSets

VARIABLES
    localStorage,   \* the BladeMod entry of window.localStorage: Null or a string
    viewRoutes,     \* the exported route table; <<>> while the module is not evaluated
    requests,       \* the requests issued through the api object, in order
    calls,          \* the calls of the API client functions, with what each returned
    schemas,        \* state.schemas.displays.schema.properties of the Redux store
    display,        \* the display prop of TransitionCard
    mounted,        \* whether TransitionCard is mounted
    rendered,       \* the element tree of the last render of TransitionCard
    selectValue,    \* the (uncontrolled) Select's own value
    sliderValue,    \* the (uncontrolled) Slider's own value
    console,        \* the distinct messages written with console.log
    dispatched      \* the Redux actions dispatched, in order

vars == <<localStorage, viewRoutes, requests, calls, schemas, display, mounted,
          rendered, selectValue, sliderValue, console, dispatched>>

routeVars == <<localStorage, viewRoutes>>
apiVars   == <<requests, calls>>
cardVars  == <<schemas, display, mounted, rendered, selectValue, sliderValue,
               console, dispatched>>

(***************************************************************************)
(* Bounds                                                                  *)
(***************************************************************************)
MaxStrLen == 2      \* longest string over Chars stored under BladeMod
MaxRequests == 3    \* most requests issued in one run
MaxEnum == 2        \* longest transition_mode.enum of a schema
MaxTime == 1        \* largest transition time of a schema or display

(***************************************************************************)
(* JavaScript values                                                       *)
(***************************************************************************)
\* null (getItem of an absent key) and undefined (a missing argument or property)
Null == [null |-> TRUE]
Undefined == [undefined |-> TRUE]

\* Strings are sequences of one-character strings; Str(s) is the string value.
Str(s) == [str |-> s]
Chars == {"0", "1", "2", "3", "x", "-"}

RECURSIVE StringsUpTo(_)
StringsUpTo(n) ==
    IF n = 0 THEN {<<>>}
    ELSE LET shorter == StringsUpTo(n - 1)
         IN shorter \cup {Append(s, c) : s \in {t \in shorter : Len(t) = n - 1}, c \in Chars}

\* Longer strings that exercise white space, a sign, a fraction, a suffix and hex.
ExtraStrings ==
    { <<" ", "3">>, <<" ", " ", "2">>, <<"2", ".", "9">>, <<"3", "p", "x">>,
      <<"+", "3">>, <<"0", "x", "3">>, <<"0", "X", "1">>, <<"0", "x", "1", "0">>,
      <<"-", "0", "x", "3">>, <<"1", "0">>, <<"0", "0", "3">>, <<"n", "u", "l", "l">>,
      <<"t", "r", "u", "e">>, <<".", "3">>, <<"1", "e", "3">> }

Strings == StringsUpTo(MaxStrLen) \cup ExtraStrings

\* Numbers: an integer or NaN.
NaN == [isNaN |-> TRUE, value |-> 0]
Num(n) == [isNaN |-> FALSE, value |-> n]

\* JavaScript's x > n: false when x is NaN.
GreaterThan(x, n) == ~x.isNaN /\ x.value > n

\* ToString of what getItem returns: null becomes the string "null".
ToString(v) == IF v = Null THEN <<"n", "u", "l", "l">> ELSE v.str

DigitValue(c) ==
    CASE c = "0" -> 0 [] c = "1" -> 1 [] c = "2" -> 2 [] c = "3" -> 3
      [] c = "4" -> 4 [] c = "5" -> 5 [] c = "6" -> 6 [] c = "7" -> 7
      [] c = "8" -> 8 [] c = "9" -> 9 [] c = "a" -> 10 [] c = "b" -> 11
      [] c = "c" -> 12 [] c = "d" -> 13 [] c = "e" -> 14 [] c = "f" -> 15
      [] OTHER -> 99

IsDigit(c, radix) == DigitValue(c) < radix

RECURSIVE TrimStart(_)
TrimStart(s) ==
    IF s # <<>> /\ Head(s) = " " THEN TrimStart(Tail(s)) ELSE s

\* The longest prefix of s made of digits of the radix.
RECURSIVE DigitPrefix(_, _)
DigitPrefix(s, radix) ==
    IF s # <<>> /\ IsDigit(Head(s), radix)
    THEN <<Head(s)>> \o DigitPrefix(Tail(s), radix)
    ELSE <<>>

RECURSIVE DigitsValue(_, _, _)
DigitsValue(s, radix, acc) ==
    IF s = <<>> THEN acc
    ELSE DigitsValue(Tail(s), radix, acc * radix + DigitValue(Head(s)))

\* parseInt(v) with no radix: leading white space is skipped, then an optional
\* sign, then an optional 0x (radix 16, else 10), then the digits up to the first
\* character that is no digit; NaN when there is no digit.
parseInt(v) ==
    LET s      == TrimStart(ToString(v))
        signed == s # <<>> /\ Head(s) \in {"-", "+"}
        sign   == IF s # <<>> /\ Head(s) = "-" THEN -1 ELSE 1
        u      == IF signed THEN Tail(s) ELSE s
        hex    == Len(u) >= 2 /\ u[1] = "0" /\ u[2] \in {"x", "X"}
        radix  == IF hex THEN 16 ELSE 10
        body   == IF hex THEN Tail(Tail(u)) ELSE u
        z      == DigitPrefix(body, radix)
    IN IF z = <<>> THEN NaN ELSE Num(sign * DigitsValue(z, radix, 0))

(***************************************************************************)
(* The route module, frontend/src/routes/views.jsx                         *)
(***************************************************************************)
\* A slip of the key: getItem of a key that is never set.
getItem_otherKey(store) == Null

\* window.localStorage.getItem('BladeMod') in the storage state store
getItem(store) == store

dashboard ==
    [path |-> "/dashboard", sidebarName |-> "Dashboard", navbarName |-> "Dashboard",
     icon |-> "Dashboard", component |-> "BladeboardDnDView"]

\* A slip of the threshold: the one of integrations.
virtuals_threshold1(store) ==
    IF GreaterThan(parseInt(getItem(store)), 1)
    THEN [path |-> "/virtuals", sidebarName |-> "Virtual Strips",
          navbarName |-> "Virtual Strips", icon |-> "DeviceHubIcon",
          component |-> "VirtualsView"]
    ELSE [path |-> "/virtuals", navbarName |-> "Virtual Strips",
          icon |-> "DeviceHubIcon", component |-> "VirtualsView"]

\* A slip of the gate: the flag decides the component, as the dashboard's once did.
virtuals_gatedView(store) ==
    IF GreaterThan(parseInt(getItem(store)), 2)
    THEN [path |-> "/virtuals", sidebarName |-> "Virtual Strips",
          navbarName |-> "Virtual Strips", icon |-> "DeviceHubIcon",
          component |-> "VirtualsView"]
    ELSE [path |-> "/virtuals", navbarName |-> "Virtual Strips",
          icon |-> "DeviceHubIcon", component |-> "DevicesView"]

virtuals(store) ==
    IF GreaterThan(parseInt(getItem(store)), 2)
    THEN [path |-> "/virtuals", sidebarName |-> "Virtual Strips",
          navbarName |-> "Virtual Strips", icon |-> "DeviceHubIcon",
          component |-> "VirtualsView"]
    ELSE [path |-> "/virtuals", navbarName |-> "Virtual Strips",
          icon |-> "DeviceHubIcon", component |-> "VirtualsView"]

integrations(store) ==
    IF GreaterThan(parseInt(getItem(store)), 1)
    THEN [path |-> "/integrations", sidebarName |-> "Integrations",
          navbarName |-> "Integrations", icon |-> "PowerIcon",
          component |-> "IntegrationsView"]
    ELSE [path |-> "/integrations", navbarName |-> "Integrations",
          icon |-> "PowerIcon", component |-> "IntegrationsView"]

\* The table the module exports when it is evaluated in the storage state store.
ViewRoutesOf(store) ==
    << dashboard,
       [path |-> "/displays/:displayId", navbarName |-> "Displays",
        sidebarName |-> "Displays", icon |-> "List", component |-> "DisplayView"],
       [path |-> "/scenes", sidebarName |-> "Scenes Management",
        navbarName |-> "Scenes Management", icon |-> "SaveAltIcon",
        component |-> "ScenesView"],
       [path |-> "/devices", sidebarName |-> "Device Management",
        navbarName |-> "Device Management", icon |-> "Settings",
        component |-> "DevicesView"],
       integrations(store),
       virtuals(store),
       [path |-> "/settings", sidebarName |-> "Settings", navbarName |-> "Settings",
        icon |-> "BuildIcon", component |-> "AdvancedView"],
       [path |-> "/developer/melbank", sidebarName |-> "Developer",
        navbarName |-> "Developer", icon |-> "Tune", component |-> "DeveloperView"],
       [redirect |-> TRUE, path |-> "/", to |-> "/dashboard", navbarName |-> "Redirect"] >>

\* The page loads: the module is evaluated once, reading local storage as it is.
LoadModule ==
    /\ viewRoutes = <<>>
    /\ viewRoutes' = ViewRoutesOf(localStorage)
    /\ UNCHANGED <<localStorage, apiVars, cardVars>>

\* The page is left or reloaded: the evaluated module is gone.
UnloadModule ==
    /\ viewRoutes # <<>>
    /\ viewRoutes' = <<>>
    /\ UNCHANGED <<localStorage, apiVars, cardVars>>

\* A route table that follows the flag: a write re-evaluates a loaded table.
setItem_live(s) ==
    /\ localStorage' = Str(s)
    /\ viewRoutes' = IF viewRoutes = <<>> THEN <<>> ELSE ViewRoutesOf(Str(s))
    /\ UNCHANGED <<apiVars, cardVars>>

\* window.localStorage.setItem('BladeMod', s), from the console or any script
setItem(s) ==
    /\ localStorage' = Str(s)
    /\ UNCHANGED <<viewRoutes, apiVars, cardVars>>

\* window.localStorage.removeItem('BladeMod')
removeItem ==
    /\ localStorage' = Null
    /\ UNCHANGED <<viewRoutes, apiVars, cardVars>>

NextRoutes ==
    \/ LoadModule
    \/ UnloadModule
    \/ \E s \in Strings : setItem(s)
    \/ removeItem

(***************************************************************************)
(* The api object of utils/api and the backend behind it                   *)
(***************************************************************************)
\* The promise of the i-th request issued through the api object.
Promise(i) == [promise |-> i]

\* api.<verb>(path, data): one request goes out and stays pending until the
\* backend settles it.
api_request(verb, path, data) ==
    requests' = Append(requests, [verb |-> verb, path |-> path, data |-> data,
                                  status |-> "pending"])

api_get(path) == api_request("GET", path, Undefined)
api_put(path, data) == api_request("PUT", path, data)
api_post(path, data) == api_request("POST", path, data)

\* The backend answers the i-th request, or the request fails.
Respond(i, outcome) ==
    /\ requests[i].status = "pending"
    /\ requests' = [requests EXCEPT ![i].status = outcome]
    /\ UNCHANGED <<calls, routeVars, cardVars>>

(***************************************************************************)
(* The API client functions                                                *)
(***************************************************************************)
\* The payloads callers pass to setSystemConfig and updateSelectedAudioInput.
Payloads == {[index |-> "1"], [timeout |-> 0]}

\* A slip of the return: the function calls the api object and returns nothing.
ReturnNothing(fn, arg) ==
    /\ calls' = Append(calls, [fn |-> fn, arg |-> arg, result |-> Undefined])
    /\ UNCHANGED <<routeVars, cardVars>>

\* "return api.<verb>(...)": the caller gets the promise of the request just issued.
ReturnApiResult(fn, arg) ==
    /\ calls' = Append(calls, [fn |-> fn, arg |-> arg, result |-> Promise(Len(requests'))])
    /\ UNCHANGED <<routeVars, cardVars>>

\* A slip of the verb.
shutdown_post ==
    /\ api_post("/shutdown", [timeout |-> 0])
    /\ ReturnApiResult("shutdown", Undefined)

shutdown ==
    /\ api_put("/shutdown", [timeout |-> 0])
    /\ ReturnApiResult("shutdown", Undefined)

getSystemConfig ==
    /\ api_get("/config")
    /\ ReturnApiResult("getSystemConfig", Undefined)

setSystemConfig(config) ==
    /\ api_post("/config", config)
    /\ ReturnApiResult("setSystemConfig", config)

\* A client that serialises: the call goes out only when nothing is outstanding.
getSystemInfo_queued ==
    /\ \A i \in 1..Len(requests) : requests[i].status # "pending"
    /\ api_get("/info")
    /\ ReturnApiResult("getSystemInfo", Undefined)

getSystemInfo ==
    /\ api_get("/info")
    /\ ReturnApiResult("getSystemInfo", Undefined)

getAudioInputs ==
    /\ api_get("/audio/devices")
    /\ ReturnApiResult("getAudioInputs", Undefined)

\* A slip of the argument: the selection is not sent.
updateSelectedAudioInput_noData(data) ==
    /\ api_put("/audio/devices", Undefined)
    /\ ReturnApiResult("updateSelectedAudioInput", data)

updateSelectedAudioInput(data) ==
    /\ api_put("/audio/devices", data)
    /\ ReturnApiResult("updateSelectedAudioInput", data)

\* A run issues at most MaxRequests requests.
More == Len(requests) < MaxRequests

NextApi ==
    \/ More /\ shutdown
    \/ More /\ getSystemConfig
    \/ More /\ \E config \in Payloads : setSystemConfig(config)
    \/ More /\ getSystemInfo
    \/ More /\ getAudioInputs
    \/ More /\ \E data \in Payloads : updateSelectedAudioInput(data)
    \/ \E i \in 1..Len(requests), outcome \in {"fulfilled", "rejected"} :
          Respond(i, outcome)

(***************************************************************************)
(* TransitionCard                                                          *)
(***************************************************************************)
Modes == {"Add", "Dissolve"}
TimeValues == 0..MaxTime

RECURSIVE EnumsUpTo(_)
EnumsUpTo(n) ==
    IF n = 0 THEN {<<>>}
    ELSE LET shorter == EnumsUpTo(n - 1)
         IN shorter \cup {Append(e, m) : e \in {t \in shorter : Len(t) = n - 1}, m \in Modes}

\* The schema properties the backend supplies.
Schemas ==
    {[transition_mode |-> [enum |-> e],
      transition_time |-> [minimum |-> lo, maximum |-> hi, default |-> d]] :
        e \in EnumsUpTo(MaxEnum), lo \in TimeValues, hi \in TimeValues, d \in TimeValues}

\* The display prop: entry is display.config[display.id], which may be missing.
Displays ==
    {[id |-> "display-1", entry |-> Undefined]} \cup
    {[id |-> "display-1",
      entry |-> [config |-> [transition_mode |-> m, transition_time |-> t]]] :
        m \in Modes, t \in TimeValues}

\* display.config[display.id] && display.config[display.id].config
\*     && display.config[display.id].config.transition_mode
transition_mode(d) ==
    IF d.entry = Undefined THEN Undefined ELSE [value |-> d.entry.config.transition_mode]

transition_time(d) ==
    IF d.entry = Undefined THEN Undefined ELSE [value |-> d.entry.config.transition_time]

\* The action creator of modules/displays.
addDisplay(payload) == [type |-> "displays/addDisplay", payload |-> payload]

\* handleSetTransition(displayId, config)(): the only dispatch of the component.
handleSetTransition(displayId, config) ==
    dispatched' = Append(dispatched, addDisplay([id |-> displayId, config |-> config]))

\* The handler the Select was meant to have: it dispatches the chosen mode.
addDevice_dispatching ==
    /\ console' = console \cup {"adding now"}
    /\ handleSetTransition(display.id, [transition_mode |-> selectValue'])

\* The Select's onChange handler.
addDevice ==
    /\ console' = console \cup {"adding now"}
    /\ UNCHANGED dispatched

\* A slip of the props: min and max exchanged.
RenderCard_swapped(sch) ==
    [select |-> [onChange |-> "addDevice",
                 items |-> [i \in 1..Len(sch.transition_mode.enum) |->
                              [value |-> sch.transition_mode.enum[i],
                               children |-> sch.transition_mode.enum[i]]]],
     slider |-> [defaultValue |-> sch.transition_time.default,
                 step |-> "0.1",
                 min |-> sch.transition_time.maximum,
                 max |-> sch.transition_time.minimum,
                 valueLabelDisplay |-> "on"]]

\* The element tree one evaluation of the component returns.
RenderCard(sch) ==
    [select |-> [onChange |-> "addDevice",
                 items |-> [i \in 1..Len(sch.transition_mode.enum) |->
                              [value |-> sch.transition_mode.enum[i],
                               children |-> sch.transition_mode.enum[i]]]],
     slider |-> [defaultValue |-> sch.transition_time.default,
                 step |-> "0.1",
                 min |-> sch.transition_time.minimum,
                 max |-> sch.transition_time.maximum,
                 valueLabelDisplay |-> "on"]]

\* One evaluation of the component function: the two console.log lines and the
\* returned tree.
Render(sch) ==
    /\ console' = console \cup {"YZ-NOTMATT1:", "YZ-NOTMATT2:"}
    /\ rendered' = RenderCard(sch)

\* The card is mounted: first render; the uncontrolled Slider starts at defaultValue
\* and the uncontrolled Select at the empty value.
Mount ==
    /\ ~mounted
    /\ mounted' = TRUE
    /\ Render(schemas)
    /\ selectValue' = ""
    /\ sliderValue' = schemas.transition_time.default
    /\ UNCHANGED <<schemas, display, dispatched, routeVars, apiVars>>

Unmount ==
    /\ mounted
    /\ mounted' = FALSE
    /\ rendered' = Null
    /\ selectValue' = ""
    /\ sliderValue' = 0
    /\ UNCHANGED <<schemas, display, console, dispatched, routeVars, apiVars>>

\* The store's schema changes (useSelector): a mounted card renders again.
StoreUpdate(sch) ==
    /\ sch # schemas
    /\ schemas' = sch
    /\ IF mounted THEN Render(sch) ELSE UNCHANGED <<console, rendered>>
    /\ UNCHANGED <<display, mounted, selectValue, sliderValue, dispatched, routeVars, apiVars>>

\* The parent passes another display prop: a mounted card renders again.
DisplayUpdate(d) ==
    /\ d # display
    /\ display' = d
    /\ IF mounted THEN Render(schemas) ELSE UNCHANGED <<console, rendered>>
    /\ UNCHANGED <<schemas, mounted, selectValue, sliderValue, dispatched, routeVars, apiVars>>

\* The user picks the i-th MenuItem: the Select takes its value and calls onChange.
SelectMode(i) ==
    /\ mounted
    /\ i \in DOMAIN rendered.select.items
    /\ rendered.select.items[i].value # selectValue
    /\ selectValue' = rendered.select.items[i].value
    /\ addDevice
    /\ UNCHANGED <<schemas, display, mounted, rendered, sliderValue, routeVars, apiVars>>

\* The user drags the Slider to v: it has no onChange, only its own value moves.
MoveSlider(v) ==
    /\ mounted
    /\ rendered.slider.min <= v /\ v <= rendered.slider.max
    /\ v # sliderValue
    /\ sliderValue' = v
    /\ UNCHANGED <<schemas, display, mounted, rendered, selectValue, console, dispatched, routeVars, apiVars>>

NextCard ==
    \/ Mount
    \/ Unmount
    \/ \E sch \in Schemas : StoreUpdate(sch)
    \/ \E d \in Displays : DisplayUpdate(d)
    \/ \E i \in 1..MaxEnum : SelectMode(i)
    \/ \E v \in TimeValues : MoveSlider(v)

(***************************************************************************)
(* Specifications                                                          *)
(***************************************************************************)
\* The schema before the backend has supplied one, and the display without entry.
EmptySchema ==
    [transition_mode |-> [enum |-> <<>>],
     transition_time |-> [minimum |-> 0, maximum |-> 0, default |-> 0]]

NoDisplay == [id |-> "display-1", entry |-> Undefined]

\* Any BladeMod entry, the module not yet evaluated; the other parts at rest.
InitRoutes ==
    /\ localStorage \in {Str(s) : s \in Strings} \cup {Null}
    /\ viewRoutes = <<>>
    /\ requests = <<>>
    /\ calls = <<>>
    /\ schemas = EmptySchema
    /\ display = NoDisplay
    /\ mounted = FALSE
    /\ rendered = Null
    /\ selectValue = ""
    /\ sliderValue = 0
    /\ console = {}
    /\ dispatched = <<>>

\* No request issued yet; the other parts at rest.
InitApi ==
    /\ localStorage = Null
    /\ viewRoutes = <<>>
    /\ requests = <<>>
    /\ calls = <<>>
    /\ schemas = EmptySchema
    /\ display = NoDisplay
    /\ mounted = FALSE
    /\ rendered = Null
    /\ selectValue = ""
    /\ sliderValue = 0
    /\ console = {}
    /\ dispatched = <<>>

\* Any schema and display, the card not yet mounted; the other parts at rest.
InitCard ==
    /\ localStorage = Null
    /\ viewRoutes = <<>>
    /\ requests = <<>>
    /\ calls = <<>>
    /\ schemas \in Schemas
    /\ display \in Displays
    /\ mounted = FALSE
    /\ rendered = Null
    /\ selectValue = ""
    /\ sliderValue = 0
    /\ console = {}
    /\ dispatched = <<>>

SpecRoutes == InitRoutes /\ [][NextRoutes]_vars

SpecApi == InitApi /\ [][NextApi]_vars

SpecCard == InitCard /\ [][NextCard]_vars

(***************************************************************************)
(* Properties of the API client functions (SpecApi)                        *)
(***************************************************************************)
\* The step is a call of fn: the call log grows by one entry of that function.
IsCallOf(fn) ==
    /\ Len(calls') = Len(calls) + 1
    /\ calls'[Len(calls')].fn = fn

\* The REST surface of the specification, section 6.
RestSurface ==
    { <<"PUT", "/shutdown">>, <<"GET", "/config">>, <<"POST", "/config">>,
      <<"GET", "/info">>, <<"GET", "/audio/devices">>, <<"PUT", "/audio/devices">> }

\* The (verb, path) fixed for each function other than shutdown.
FixedRoute(fn) ==
    CASE fn = "getSystemConfig" -> <<"GET", "/config">>
      [] fn = "setSystemConfig" -> <<"POST", "/config">>
      [] fn = "getSystemInfo" -> <<"GET", "/info">>
      [] fn = "getAudioInputs" -> <<"GET", "/audio/devices">>
      [] fn = "updateSelectedAudioInput" -> <<"PUT", "/audio/devices">>
      [] fn = "shutdown" -> <<"PUT", "/shutdown">>

\* C1: every call of shutdown() issues exactly one request through the api
\* object, a PUT to '/shutdown' carrying {timeout: 0}, and nothing else: the
\* request log after the call is the log before it with that one request appended.
C1_ShutdownIssuesOnePut ==
    [][IsCallOf("shutdown") =>
          requests' = Append(requests, [verb |-> "PUT", path |-> "/shutdown",
                                        data |-> [timeout |-> 0],
                                        status |-> "pending"])]_vars

\* C1 witness: shutdown has been called after another call and its request is
\* in the log.
C1_Witness ==
    /\ Len(calls) >= 2
    /\ calls[2].fn = "shutdown"
    /\ requests[2].path = "/shutdown"

\* C2: after every sequence of calls there is exactly one request per call, in
\* call order; the request of each call has the (verb, path) fixed for its
\* function, the argument of setSystemConfig and updateSelectedAudioInput is
\* the request's payload, and every request is one of the six pairs of the REST
\* surface.
C2_RestSurfaceOnly ==
    /\ Len(requests) = Len(calls)
    /\ \A i \in 1..Len(calls) :
          /\ calls[i].result = Promise(i)
          /\ <<requests[i].verb, requests[i].path>> = FixedRoute(calls[i].fn)
          /\ calls[i].fn \in {"setSystemConfig", "updateSelectedAudioInput"}
                => requests[i].data = calls[i].arg
          /\ calls[i].fn \in {"getSystemConfig", "getSystemInfo", "getAudioInputs"}
                => requests[i].data = Undefined
    /\ \A i \in 1..Len(requests) :
          <<requests[i].verb, requests[i].path>> \in RestSurface

\* C2 witness: setSystemConfig and updateSelectedAudioInput have been called with
\* different arguments, and a GET function too.
C2_Witness ==
    \E i, j, k \in 1..Len(calls) :
        /\ calls[i].fn = "setSystemConfig"
        /\ calls[j].fn = "updateSelectedAudioInput"
        /\ calls[i].arg # calls[j].arg
        /\ requests[j].data = calls[j].arg
        /\ calls[k].fn = "getAudioInputs"

\* C4: no function retries or recovers: whatever has failed, there is exactly
\* one request per call, and the caller of a call whose request failed holds
\* the api object's own promise of that request, so it sees the failure as it is.
C4_NoRetryNoRecovery ==
    /\ Len(requests) = Len(calls)
    /\ \A i \in 1..Len(requests) :
          requests[i].status = "rejected" =>
              /\ i <= Len(calls)
              /\ calls[i].result = Promise(i)
              /\ Cardinality({j \in 1..Len(requests) :
                        /\ requests[j].verb = requests[i].verb
                        /\ requests[j].path = requests[i].path
                        /\ requests[j].data = requests[i].data})
                 = Cardinality({j \in 1..Len(calls) :
                        /\ calls[j].fn = calls[i].fn
                        /\ calls[j].arg = calls[i].arg})

\* C4 witness: a request has failed and a later call has been made since.
C4_Witness ==
    /\ Len(calls) >= 2
    /\ requests[1].status = "rejected"
    /\ calls[2].fn = calls[1].fn

\* C5: calls are fire-and-forget.  Every function can be called in every state,
\* whatever is outstanding; a call appends its request, pending, and leaves every
\* earlier request as it was; and the request appended is the one fixed for the
\* function and its argument, whatever calls came before and however they ended.
C5_FireAndForget ==
    /\ [](/\ ENABLED shutdown
          /\ ENABLED getSystemConfig
          /\ ENABLED getSystemInfo
          /\ ENABLED getAudioInputs
          /\ \A p \in Payloads :
                ENABLED setSystemConfig(p) /\ ENABLED updateSelectedAudioInput(p))
    /\ [][Len(calls') > Len(calls) =>
            LET call == calls'[Len(calls')]
                sent == requests'[Len(requests')]
            IN /\ Len(calls') = Len(calls) + 1
               /\ Len(requests') = Len(requests) + 1
               /\ SubSeq(requests', 1, Len(requests)) = requests
               /\ sent.status = "pending"
               /\ <<sent.verb, sent.path>> = FixedRoute(call.fn)
               /\ sent.data = IF call.fn = "shutdown" THEN [timeout |-> 0]
                              ELSE call.arg]_vars

\* C5 witness: three requests were issued; the last has already failed while the
\* two issued before it are still outstanding.
C5_Witness ==
    /\ Len(requests) = 3
    /\ requests[1].status = "pending"
    /\ requests[2].status = "pending"
    /\ requests[3].status = "rejected"

(***************************************************************************)
(* Properties of the route table (SpecRoutes)                              *)
(***************************************************************************)
\* The entry of the table for a path.
RouteOf(routes, path) ==
    routes[CHOOSE i \in 1..Len(routes) : routes[i].path = path]

HasSidebarName(routes, path) == "sidebarName" \in DOMAIN RouteOf(routes, path)

\* The paths listed in the sidebar: the entries with a sidebarName.
SidebarPaths(routes) ==
    {routes[i].path : i \in {j \in 1..Len(routes) : "sidebarName" \in DOMAIN routes[j]}}

\* The module has just been evaluated in this step.
IsLoad == viewRoutes = <<>> /\ viewRoutes' # <<>>

AllFlags == {Str(s) : s \in Strings} \cup {Null}

\* C3: the flag gates which routes are shown in the sidebar: whatever table is
\* loaded, some other BladeMod value yields a table whose set of sidebar routes
\* differs from the loaded one's.
C3_FlagGatesSidebar ==
    viewRoutes # <<>> =>
        \E flag \in AllFlags : SidebarPaths(ViewRoutesOf(flag)) # SidebarPaths(viewRoutes)

\* C3 witness: tables with three different sets of sidebar routes are loaded in
\* turn; here the one listing both gated routes, while storage holds a value
\* that would list neither.
C3_Witness ==
    /\ viewRoutes # <<>>
    /\ {"/virtuals", "/integrations"} \subseteq SidebarPaths(viewRoutes)
    /\ SidebarPaths(ViewRoutesOf(localStorage)) \cap {"/virtuals", "/integrations"} = {}

\* C7: when the module is evaluated, '/virtuals' gets a sidebarName iff
\* parseInt(BladeMod) > 2 and '/integrations' iff parseInt(BladeMod) > 1; an
\* absent or non-numeric flag gives neither; and in every loaded table a
\* sidebarName on '/virtuals' implies one on '/integrations'.
C7_FlagThresholds ==
    /\ [][IsLoad =>
            LET n == parseInt(localStorage)
            IN /\ HasSidebarName(viewRoutes', "/virtuals") <=> (~n.isNaN /\ n.value > 2)
               /\ HasSidebarName(viewRoutes', "/integrations") <=> (~n.isNaN /\ n.value > 1)
               /\ (localStorage = Null \/ n.isNaN) =>
                     /\ ~HasSidebarName(viewRoutes', "/virtuals")
                     /\ ~HasSidebarName(viewRoutes', "/integrations")
               /\ localStorage = Str(<<"3">>) => HasSidebarName(viewRoutes', "/virtuals")
               /\ localStorage = Str(<<"2">>) =>
                     /\ ~HasSidebarName(viewRoutes', "/virtuals")
                     /\ HasSidebarName(viewRoutes', "/integrations")
               /\ localStorage \in {Str(<<"1">>), Str(<<>>), Str(<<"x">>), Str(<<"-", "3">>)} =>
                     ~HasSidebarName(viewRoutes', "/integrations")]_vars
    /\ [](viewRoutes # <<>> =>
            (HasSidebarName(viewRoutes, "/virtuals")
                => HasSidebarName(viewRoutes, "/integrations")))

\* C7 witness: a table loaded with the flag between the thresholds: a sidebar
\* entry for '/integrations' and none for '/virtuals'.
C7_Witness ==
    /\ viewRoutes # <<>>
    /\ HasSidebarName(viewRoutes, "/integrations")
    /\ ~HasSidebarName(viewRoutes, "/virtuals")
    /\ parseInt(localStorage) = Num(2)

\* The paths and components of the table, in order; the redirect has no component.
FixedPaths ==
    << "/dashboard", "/displays/:displayId", "/scenes", "/devices", "/integrations",
       "/virtuals", "/settings", "/developer/melbank", "/" >>

FixedComponents ==
    << "BladeboardDnDView", "DisplayView", "ScenesView", "DevicesView",
       "IntegrationsView", "VirtualsView", "AdvancedView", "DeveloperView" >>

\* A route without its sidebarName.
WithoutSidebarName(r) == [f \in DOMAIN r \ {"sidebarName"} |-> r[f]]

\* C8: every loaded table has the same nine entries in the same order with the
\* same path and component; it differs from the table of an absent flag in
\* nothing but the sidebarName of '/integrations' and '/virtuals'; and the
\* redirect's target is a path of the table.
C8_TableShapeFixed ==
    viewRoutes # <<>> =>
        /\ Len(viewRoutes) = Len(FixedPaths)
        /\ \A i \in 1..Len(FixedPaths) : viewRoutes[i].path = FixedPaths[i]
        /\ \A i \in 1..Len(FixedComponents) :
              /\ "component" \in DOMAIN viewRoutes[i]
              /\ viewRoutes[i].component = FixedComponents[i]
        /\ \A i \in 1..Len(viewRoutes) :
              IF viewRoutes[i].path \in {"/integrations", "/virtuals"}
              THEN WithoutSidebarName(viewRoutes[i])
                      = WithoutSidebarName(ViewRoutesOf(Null)[i])
              ELSE viewRoutes[i] = ViewRoutesOf(Null)[i]
        /\ LET last == viewRoutes[Len(viewRoutes)]
           IN /\ "redirect" \in DOMAIN last /\ last.redirect
              /\ last.path = "/" /\ last.to = "/dashboard"
              /\ \E i \in 1..Len(viewRoutes) : viewRoutes[i].path = last.to

\* C8 witness: a table loaded with the flag above both thresholds.
C8_Witness ==
    /\ viewRoutes # <<>>
    /\ HasSidebarName(viewRoutes, "/virtuals")
    /\ HasSidebarName(viewRoutes, "/integrations")
    /\ viewRoutes # ViewRoutesOf(Null)

\* C9: the flag is read only when the module is evaluated: a step that writes or
\* removes the BladeMod entry leaves viewRoutes as it was, and a loaded table
\* changes only by the module being unloaded.
C9_FlagReadOnce ==
    [][/\ localStorage' # localStorage => viewRoutes' = viewRoutes
       /\ (viewRoutes # <<>> /\ viewRoutes' # viewRoutes) => viewRoutes' = <<>>]_vars

\* C9 witness: a loaded table that the flag now in storage would not produce.
C9_Witness ==
    /\ viewRoutes # <<>>
    /\ HasSidebarName(viewRoutes, "/virtuals")
    /\ localStorage = Null
    /\ viewRoutes # ViewRoutesOf(localStorage)

(***************************************************************************)
(* Properties of TransitionCard (SpecCard)                                 *)
(***************************************************************************)
\* C6: the form controls of a mounted card come from the schema in the store:
\* the Select's options are the entries of transition_mode.enum in order, and
\* the Slider's min, max and defaultValue are transition_time's minimum,
\* maximum and default.
C6_ControlsFromSchema ==
    mounted =>
        /\ Len(rendered.select.items) = Len(schemas.transition_mode.enum)
        /\ \A i \in 1..Len(schemas.transition_mode.enum) :
              rendered.select.items[i].value = schemas.transition_mode.enum[i]
        /\ rendered.slider.min = schemas.transition_time.minimum
        /\ rendered.slider.max = schemas.transition_time.maximum
        /\ rendered.slider.defaultValue = schemas.transition_time.default

\* C6 witness: a mounted card whose schema has two different modes and a range
\* with minimum below maximum, in a state where the Slider's own value is not
\* the schema's default (the schema changed after the mount, or the user moved
\* the slider).
C6_Witness ==
    /\ mounted
    /\ Len(schemas.transition_mode.enum) = 2
    /\ schemas.transition_mode.enum[1] # schemas.transition_mode.enum[2]
    /\ schemas.transition_time.minimum < schemas.transition_time.maximum
    /\ schemas.transition_time.default = schemas.transition_time.maximum
    /\ sliderValue # schemas.transition_time.default

\* The step is a user interaction with the mounted card: the Select's or the
\* Slider's own value changes.
IsInteraction ==
    /\ mounted /\ mounted'
    /\ selectValue' # selectValue \/ sliderValue' # sliderValue

\* C10: no interaction with the card dispatches a Redux action, issues a request
\* or changes the display's transition_mode and transition_time; over any run of
\* the card nothing is ever dispatched or requested.
C10_CardHasNoEffect ==
    /\ [][IsInteraction =>
            /\ dispatched' = dispatched
            /\ requests' = requests
            /\ transition_mode(display') = transition_mode(display)
            /\ transition_time(display') = transition_time(display)]_vars
    /\ [](dispatched = <<>> /\ requests = <<>>)

\* C10 witness: the user has picked a mode (addDevice has logged) and moved the
\* slider off its default, on a display that has a transition configuration.
C10_Witness ==
    /\ mounted
    /\ selectValue \in Modes
    /\ "adding now" \in console
    /\ sliderValue # rendered.slider.defaultValue
    /\ display.entry # Undefined
    /\ transition_mode(display) # [value |-> selectValue]

=============================================================================
